---- MODULE Spec2Model ----
(***************************************************************************)
(* State-machine model of CMeshBoundVariable                               *)
(* (SU2_CFD/include/variables/CMeshBoundVariable.hpp): the variables of    *)
(* the mesh movement at the moving boundaries.  Per-boundary-vertex        *)
(* containers are indexed through a CVertexMap that maps a global point    *)
(* identifier to a compact vertex index.                                   *)
(*                                                                         *)
(* Real values (su2double) are abstracted to small naturals; 0 is 0.0.     *)
(* Containers are functions on 0-based index ranges, as in the C++.        *)
(***************************************************************************)
EXTENDS Integers, FiniteSets, Sequences, TLC

\* ------------------------------------------------ construction parameters
\* CMeshBoundVariable(npoint, ndim, config): a mesh of three points in two
\* dimensions.
nPoint == 3
nDim == 2

\* ------------------------------------------------------------------ bounds
\* Largest number of vibration modes a caller passes to the initializer.
MaxMode == 2
\* Setter calls explored per run.
MaxCalls == 1

Points == 0 .. (nPoint - 1)
Dims == 0 .. (nDim - 1)
Modes == 0 .. (MaxMode - 1)
\* Abstract su2double / blade-ID values a caller passes in: 0.0 and a
\* non-zero value.
Values == {0, 1}
\* The vectors a caller passes to the pointer forms of the setters.
Vectors == [Dims -> Values]
\* Caller-side adjoint buffers are one entry longer than nDim, so that a
\* write past the last dimension would be visible.
BufIdx == 0 .. nDim
BufferInputs == {[i \in BufIdx |-> 70 + c * 10 + i] : c \in 0 .. 1}
\* Derivatives an external reverse sweep attaches to entry (iVertex, iDim).
Seeds == {1}
SweptDerivative(seed, iVertex, iDim) == seed * 10 + iVertex * nDim + iDim + 1

\* Number of solution variables of the base class; for the mesh variables the
\* base constructor is called with nvar = ndim.
nVar == nDim

VARIABLES
  VertexMap,               \* CVertexMap<unsigned> VertexMap
  Boundary_Displacement,   \* MatrixType: values of the active doubles
  Displacement_Derivative, \* derivative carried by each displacement entry
  Boundary_Velocity,       \* MatrixType
  Boundary_ModeShape,      \* C3DDoubleMatrix
  Boundary_ModeShape_TWM,  \* C3DDoubleMatrix
  Boundary_BladeID,        \* su2vector<unsigned short>
  nMode,                   \* unsigned long nMode = 0
  registered,              \* Register_BoundDisp has put the entries on the tape
  ret,                     \* value returned by the last call ("void" if none)
  adj_disp,                \* caller's buffer after the last GetAdjoint_BoundDisp
  lastCall,                \* the last operation called, with what it observed
  fault,                   \* an access outside allocated storage has happened
  nCalls,                  \* accessor calls made so far
  lastFlag                 \* history: flag of the last Set_isVertex per point

vars == <<VertexMap, Boundary_Displacement, Displacement_Derivative,
          Boundary_Velocity, Boundary_ModeShape, Boundary_ModeShape_TWM,
          Boundary_BladeID, nMode, registered, ret, adj_disp, lastCall,
          fault, nCalls, lastFlag>>

storage == <<Boundary_Displacement, Displacement_Derivative, Boundary_Velocity,
             Boundary_ModeShape, Boundary_ModeShape_TWM, Boundary_BladeID>>

\* ------------------------------------------------------------ containers
\* su2matrix / su2vector / C3DContainerDecorator (Common/include/containers).
NoIndex == 0 - 1

\* resize(rows, cols) = value
MatrixResize(rows, cols, value) ==
  [i \in 0 .. (rows - 1) |-> [j \in 0 .. (cols - 1) |-> value]]

\* resize(n) = value
VectorResize(n, value) == [i \in 0 .. (n - 1) |-> value]

\* A default-constructed C3DContainerDecorator: no storage.
Empty3D == [length |-> 0, rows |-> 0, cols |-> 0, data |-> <<>>]

\* C3DContainerDecorator::length(): the first extent.
Length3D(t) == t.length

\* C3DContainerDecorator::resize(length, rows, cols, value)
Resize3D(length, rows, cols, value) ==
  [length |-> length, rows |-> rows, cols |-> cols,
   data |-> [i \in 0 .. (length - 1) |->
              [j \in 0 .. (rows - 1) |-> [k \in 0 .. (cols - 1) |-> value]]]]

\* Whether (i, j, k) lies inside the storage of t.
InBounds3D(t, i, j, k) ==
  /\ i >= 0 /\ i < t.length
  /\ j >= 0 /\ j < t.rows
  /\ k >= 0 /\ k < t.cols

\* --------------------------------------------------------------- CVertexMap
\* A sparse array over the points (isVertex flags, and either NoIndex or the
\* compact index) plus the number of vertices the last Build counted.
EmptyVertexMap ==
  [isVertex |-> [p \in Points |-> FALSE],
   index    |-> [p \in Points |-> NoIndex],
   nVertex  |-> 0,
   isValid  |-> FALSE]

\* CVertexMap::SetIsVertex: last write per point wins.
SetIsVertex(vm, iPoint, isVertex) ==
  [vm EXCEPT !.isVertex[iPoint] = isVertex]

\* CVertexMap::GetIsVertex: pure flag lookup.
GetIsVertex(vm, iPoint) == vm.isVertex[iPoint]

\* The loop of CVertexMap::Build: walk the points in ascending order and hand
\* the running counter to every flagged one.
RECURSIVE BuildFrom(_, _, _)
BuildFrom(vm, iPoint, n) ==
  IF iPoint >= nPoint
    THEN [vm EXCEPT !.nVertex = n, !.isValid = TRUE]
    ELSE IF vm.isVertex[iPoint]
           THEN BuildFrom([vm EXCEPT !.index[iPoint] = n], iPoint + 1, n + 1)
           ELSE BuildFrom([vm EXCEPT !.index[iPoint] = NoIndex], iPoint + 1, n)

\* CVertexMap::Build
Build(vm) == BuildFrom(vm, 0, 0)

\* CVertexMap::GetVertexIndex(iVertex&): false if the point has no compact
\* index (never flagged, or not compacted); otherwise the argument is
\* overwritten with the compact index.
GetVertexIndex(vm, iPoint) ==
  IF vm.isValid /\ vm.index[iPoint] # NoIndex
    THEN [ok |-> TRUE, iPoint |-> vm.index[iPoint]]
    ELSE [ok |-> FALSE, iPoint |-> iPoint]

\* ------------------------------------------------------------------- Init
\* State after the constructor: nothing flagged, nothing allocated.
Init ==
  /\ VertexMap = EmptyVertexMap
  /\ Boundary_Displacement = <<>>
  /\ Displacement_Derivative = <<>>
  /\ Boundary_Velocity = <<>>
  /\ Boundary_ModeShape = Empty3D
  /\ Boundary_ModeShape_TWM = Empty3D
  /\ Boundary_BladeID = <<>>
  /\ nMode = 0
  /\ registered = FALSE
  /\ ret = "void"
  /\ adj_disp = <<>>
  /\ lastCall = [op |-> "none"]
  /\ fault = FALSE
  /\ nCalls = 0
  /\ lastFlag = [p \in Points |-> FALSE]

\* ---------------------------------------------------- pure accessor bodies
\* Each operator is the body of the member function of the same name,
\* evaluated in the current state.  The guard at the top of every accessor
\* rewrites iPoint to the compact index (GetVertexIndex takes it by reference).

Get_isVertex(iPoint) == GetIsVertex(VertexMap, iPoint)

\* Mutation of Set_isVertex: the flag argument is dropped and the point is
\* always marked.
Set_isVertex_AlwaysTrue(iPoint, isVertex) ==
  SetIsVertex(VertexMap, iPoint, TRUE)

Set_isVertex(iPoint, isVertex) == SetIsVertex(VertexMap, iPoint, isVertex)

GetBound_Disp(iPoint, iDim) ==
  LET r == GetVertexIndex(VertexMap, iPoint)
  IN  IF ~r.ok THEN 0 ELSE Boundary_Displacement[r.iPoint][iDim]

\* Mutation of the pointer form of SetBound_Disp: the loop index is not used
\* on the source side, so every dimension receives val_BoundDisp[0].
SetBound_Disp_Vec_FirstOnly(iPoint, val_BoundDisp) ==
  LET r == GetVertexIndex(VertexMap, iPoint)
  IN  IF ~r.ok THEN Boundary_Displacement
      ELSE [Boundary_Displacement EXCEPT ![r.iPoint] =
              [iDim \in DOMAIN @ |->
                 IF iDim < nDim THEN val_BoundDisp[0] ELSE @[iDim]]]

\* SetBound_Disp(iPoint, const su2double* val_BoundDisp): the new matrix.
SetBound_Disp_Vec(iPoint, val_BoundDisp) ==
  LET r == GetVertexIndex(VertexMap, iPoint)
  IN  IF ~r.ok THEN Boundary_Displacement
      ELSE [Boundary_Displacement EXCEPT ![r.iPoint] =
              [iDim \in DOMAIN @ |->
                 IF iDim < nDim THEN val_BoundDisp[iDim] ELSE @[iDim]]]

\* Mutation of SetBound_Disp: the guard does not return, and a point without
\* a compact index addresses the row of its global identifier.
SetBound_Disp_Unguarded(iPoint, iDim, val_BoundDisp) ==
  LET r == GetVertexIndex(VertexMap, iPoint)
  IN  IF r.iPoint \in DOMAIN Boundary_Displacement
        THEN [Boundary_Displacement EXCEPT ![r.iPoint][iDim] = val_BoundDisp]
        ELSE Boundary_Displacement

\* SetBound_Disp(iPoint, iDim, val_BoundDisp): the new matrix.
SetBound_Disp(iPoint, iDim, val_BoundDisp) ==
  LET r == GetVertexIndex(VertexMap, iPoint)
  IN  IF ~r.ok THEN Boundary_Displacement
      ELSE [Boundary_Displacement EXCEPT ![r.iPoint][iDim] = val_BoundDisp]

GetBound_Vel(iPoint, iDim) ==
  LET r == GetVertexIndex(VertexMap, iPoint)
  IN  IF ~r.ok THEN 0 ELSE Boundary_Velocity[r.iPoint][iDim]

\* SetBound_Vel(iPoint, const su2double* val_BoundVel): the new matrix.
SetBound_Vel_Vec(iPoint, val_BoundVel) ==
  LET r == GetVertexIndex(VertexMap, iPoint)
  IN  IF ~r.ok THEN Boundary_Velocity
      ELSE [Boundary_Velocity EXCEPT ![r.iPoint] =
              [iDim \in DOMAIN @ |->
                 IF iDim < nDim THEN val_BoundVel[iDim] ELSE @[iDim]]]

\* Mutation of SetBound_Vel: the row index is lost and the value is written to
\* the given dimension of every boundary vertex.
SetBound_Vel_AllRows(iPoint, iDim, val_BoundVel) ==
  LET r == GetVertexIndex(VertexMap, iPoint)
  IN  IF ~r.ok THEN Boundary_Velocity
      ELSE [v \in DOMAIN Boundary_Velocity |->
              [Boundary_Velocity[v] EXCEPT ![iDim] = val_BoundVel]]

\* SetBound_Vel(iPoint, iDim, val_BoundVel): the new matrix.
SetBound_Vel(iPoint, iDim, val_BoundVel) ==
  LET r == GetVertexIndex(VertexMap, iPoint)
  IN  IF ~r.ok THEN Boundary_Velocity
      ELSE [Boundary_Velocity EXCEPT ![r.iPoint][iDim] = val_BoundVel]

\* The derivative part of the active doubles after a displacement write of
\* passive values to the dimensions in dims of point iPoint: the overwritten
\* entries no longer carry a derivative.
PassiveAssign(iPoint, dims) ==
  LET r == GetVertexIndex(VertexMap, iPoint)
  IN  IF ~r.ok THEN Displacement_Derivative
      ELSE [Displacement_Derivative EXCEPT ![r.iPoint] =
              [iDim \in DOMAIN @ |-> IF iDim \in dims THEN 0 ELSE @[iDim]]]

\* Mutation of Initialize_ModeshapeMatrix: a guard keeps the first mode count
\* and the first allocation.
Initialize_ModeshapeMatrix_Guarded(val_nMode) ==
  IF nMode # 0
    THEN [nMode |-> nMode,
          Boundary_ModeShape |-> Boundary_ModeShape,
          Boundary_ModeShape_TWM |-> Boundary_ModeShape_TWM]
    ELSE LET nBoundPt == Length3D(Boundary_ModeShape)
         IN  [nMode |-> val_nMode,
              Boundary_ModeShape |-> Resize3D(nBoundPt, val_nMode, nDim, 0),
              Boundary_ModeShape_TWM |-> Resize3D(nBoundPt, val_nMode, nDim, 0)]

\* Initialize_ModeshapeMatrix(val_nMode): the new nMode and both tensors.
\* The first extent is read back from Boundary_ModeShape itself.
Initialize_ModeshapeMatrix(val_nMode) ==
  LET nBoundPt == Length3D(Boundary_ModeShape)
  IN  [nMode |-> val_nMode,
       Boundary_ModeShape |-> Resize3D(nBoundPt, val_nMode, nDim, 0),
       Boundary_ModeShape_TWM |-> Resize3D(nBoundPt, val_nMode, nDim, 0)]

\* A guarded write of entry (iPoint, iMode, iDim) of tensor t: the tensor
\* after the call and whether the access left the allocated storage.
WriteModeShape(t, iPoint, iMode, iDim, val) ==
  LET r == GetVertexIndex(VertexMap, iPoint)
  IN  IF ~r.ok THEN [oob |-> FALSE, t |-> t]
      ELSE IF InBounds3D(t, r.iPoint, iMode, iDim)
             THEN [oob |-> FALSE,
                   t |-> [t EXCEPT !.data[r.iPoint][iMode][iDim] = val]]
             ELSE [oob |-> TRUE, t |-> t]

\* A guarded read of entry (iPoint, iMode, iDim) of tensor t.
ReadModeShape(t, iPoint, iMode, iDim) ==
  LET r == GetVertexIndex(VertexMap, iPoint)
  IN  IF ~r.ok THEN [oob |-> FALSE, val |-> 0]
      ELSE IF InBounds3D(t, r.iPoint, iMode, iDim)
             THEN [oob |-> FALSE, val |-> t.data[r.iPoint][iMode][iDim]]
             ELSE [oob |-> TRUE, val |-> 0]

\* First definition of SetBound_ModeShape (writes Boundary_ModeShape).
SetBound_ModeShape(iPoint, iMode, iDim, val_BoundModeShape) ==
  WriteModeShape(Boundary_ModeShape, iPoint, iMode, iDim, val_BoundModeShape)

\* Second definition of SetBound_ModeShape (writes Boundary_ModeShape_TWM).
SetBound_ModeShape_TWM(iPoint, iMode, iDim, val_BoundModeShape_TWM) ==
  WriteModeShape(Boundary_ModeShape_TWM, iPoint, iMode, iDim,
                 val_BoundModeShape_TWM)

GetBound_ModeShape(iPoint, iMode, iDim) ==
  ReadModeShape(Boundary_ModeShape, iPoint, iMode, iDim)

GetBound_ModeShape_TWM(iPoint, iMode, iDim) ==
  ReadModeShape(Boundary_ModeShape_TWM, iPoint, iMode, iDim)

\* SetBound_BladeID(iPoint, val_BladeID): the new vector.
SetBound_BladeID(iPoint, val_BladeID) ==
  LET r == GetVertexIndex(VertexMap, iPoint)
  IN  IF ~r.ok THEN Boundary_BladeID
      ELSE [Boundary_BladeID EXCEPT ![r.iPoint] = val_BladeID]

\* GetBound_BladeID: the unsigned short is returned as su2double (exact).
GetBound_BladeID(iPoint) ==
  LET r == GetVertexIndex(VertexMap, iPoint)
  IN  IF ~r.ok THEN 0 ELSE Boundary_BladeID[r.iPoint]

\* SU2_TYPE::GetDerivative of displacement entry (iVertex, iVar).
GetDerivative(iVertex, iVar) == Displacement_Derivative[iVertex][iVar]

\* Mutation of GetAdjoint_BoundDisp: the loop stops one variable early.
GetAdjoint_BoundDisp_StopsEarly(iPoint, buf) ==
  LET r == GetVertexIndex(VertexMap, iPoint)
  IN  IF ~r.ok THEN buf
      ELSE [iVar \in DOMAIN buf |->
              IF iVar < nVar - 1 THEN Displacement_Derivative[r.iPoint][iVar]
              ELSE buf[iVar]]

\* Mutation of GetAdjoint_BoundDisp: a point that is no boundary vertex gets
\* zeros, as the getters return.
GetAdjoint_BoundDisp_ZeroFill(iPoint, buf) ==
  LET r == GetVertexIndex(VertexMap, iPoint)
  IN  IF ~r.ok
        THEN [iVar \in DOMAIN buf |-> IF iVar < nVar THEN 0 ELSE buf[iVar]]
        ELSE [iVar \in DOMAIN buf |->
                IF iVar < nVar THEN Displacement_Derivative[r.iPoint][iVar]
                ELSE buf[iVar]]

\* GetAdjoint_BoundDisp(iPoint, adj_disp): the caller's buffer after the call.
GetAdjoint_BoundDisp(iPoint, buf) ==
  LET r == GetVertexIndex(VertexMap, iPoint)
  IN  IF ~r.ok THEN buf
      ELSE [iVar \in DOMAIN buf |->
              IF iVar < nVar THEN GetDerivative(r.iPoint, iVar) ELSE buf[iVar]]

\* ---------------------------------------------------------------- actions
\* The caller is between two calls: the previous call has returned and its
\* result has been consumed.
Idle == ~fault /\ lastCall.op = "none"

\* Setter calls are counted; the model explores MaxCalls of them per run.
CanCall == Idle /\ nCalls < MaxCalls

\* The caller consumes the result of the last call.
Return ==
  /\ ~fault
  /\ lastCall.op # "none"
  /\ lastCall' = [op |-> "none"]
  /\ ret' = "void"
  /\ adj_disp' = <<>>
  /\ UNCHANGED <<VertexMap, storage, nMode, registered, fault, nCalls, lastFlag>>

\* Set_isVertex(iPoint, isVertex), during setup (before index compaction).
DoSet_isVertex(iPoint, isVertex) ==
  /\ Idle
  /\ ~VertexMap.isValid
  /\ VertexMap' = Set_isVertex(iPoint, isVertex)
  /\ lastFlag' = [lastFlag EXCEPT ![iPoint] = isVertex]
  /\ ret' = "void"
  /\ adj_disp' = <<>>
  /\ lastCall' = [op |-> "Set_isVertex", iPoint |-> iPoint, isVertex |-> isVertex]
  /\ UNCHANGED <<storage, nMode, registered, fault, nCalls>>

\* Get_isVertex(iPoint)
DoGet_isVertex(iPoint) ==
  /\ Idle
  /\ ret' = Get_isVertex(iPoint)
  /\ adj_disp' = <<>>
  /\ lastCall' = [op |-> "Get_isVertex", iPoint |-> iPoint]
  /\ UNCHANGED <<VertexMap, storage, nMode, registered, fault, lastFlag>>
  /\ UNCHANGED nCalls

\* AllocateBoundaryVariables(config): builds the vertex map once and sizes
\* displacement, velocity and blade-ID storage to the number of vertices.
\* The mode-shape tensors are left for Initialize_ModeshapeMatrix.
AllocateBoundaryVariables ==
  /\ Idle
  /\ ~VertexMap.isValid
  /\ LET vm == Build(VertexMap)
         nBoundPt == vm.nVertex
     IN  /\ VertexMap' = vm
         /\ Boundary_Displacement' = MatrixResize(nBoundPt, nDim, 0)
         /\ Displacement_Derivative' = MatrixResize(nBoundPt, nDim, 0)
         /\ Boundary_Velocity' = MatrixResize(nBoundPt, nDim, 0)
         /\ Boundary_BladeID' = VectorResize(nBoundPt, 0)
  /\ ret' = "void"
  /\ adj_disp' = <<>>
  /\ lastCall' = [op |-> "AllocateBoundaryVariables"]
  /\ UNCHANGED <<Boundary_ModeShape, Boundary_ModeShape_TWM, nMode, registered,
                 fault, nCalls, lastFlag>>

\* What every accessor call leaves alone.
AccessorFrame == UNCHANGED <<VertexMap, nMode, registered, lastFlag>>

DoGetBound_Disp(iPoint, iDim) ==
  /\ Idle
  /\ ret' = GetBound_Disp(iPoint, iDim)
  /\ adj_disp' = <<>>
  /\ lastCall' = [op |-> "GetBound_Disp", iPoint |-> iPoint, iDim |-> iDim]
  /\ AccessorFrame
  /\ UNCHANGED <<storage, fault>>
  /\ UNCHANGED nCalls

DoSetBound_Disp_Vec(iPoint, val_BoundDisp) ==
  /\ CanCall
  /\ Boundary_Displacement' = SetBound_Disp_Vec(iPoint, val_BoundDisp)
  /\ Displacement_Derivative' = PassiveAssign(iPoint, Dims)
  /\ ret' = "void"
  /\ adj_disp' = <<>>
  /\ lastCall' = [op |-> "SetBound_Disp_Vec", iPoint |-> iPoint, val |-> val_BoundDisp]
  /\ nCalls' = nCalls + 1
  /\ AccessorFrame
  /\ UNCHANGED <<Boundary_Velocity, Boundary_ModeShape, Boundary_ModeShape_TWM,
                 Boundary_BladeID, fault>>

DoSetBound_Disp(iPoint, iDim, val_BoundDisp) ==
  /\ CanCall
  /\ Boundary_Displacement' = SetBound_Disp(iPoint, iDim, val_BoundDisp)
  /\ Displacement_Derivative' = PassiveAssign(iPoint, {iDim})
  /\ ret' = "void"
  /\ adj_disp' = <<>>
  /\ lastCall' = [op |-> "SetBound_Disp", iPoint |-> iPoint, iDim |-> iDim,
                  val |-> val_BoundDisp]
  /\ nCalls' = nCalls + 1
  /\ AccessorFrame
  /\ UNCHANGED <<Boundary_Velocity, Boundary_ModeShape, Boundary_ModeShape_TWM,
                 Boundary_BladeID, fault>>

DoGetBound_Vel(iPoint, iDim) ==
  /\ Idle
  /\ ret' = GetBound_Vel(iPoint, iDim)
  /\ adj_disp' = <<>>
  /\ lastCall' = [op |-> "GetBound_Vel", iPoint |-> iPoint, iDim |-> iDim]
  /\ AccessorFrame
  /\ UNCHANGED <<storage, fault>>
  /\ UNCHANGED nCalls

DoSetBound_Vel_Vec(iPoint, val_BoundVel) ==
  /\ CanCall
  /\ Boundary_Velocity' = SetBound_Vel_Vec(iPoint, val_BoundVel)
  /\ ret' = "void"
  /\ adj_disp' = <<>>
  /\ lastCall' = [op |-> "SetBound_Vel_Vec", iPoint |-> iPoint, val |-> val_BoundVel]
  /\ nCalls' = nCalls + 1
  /\ AccessorFrame
  /\ UNCHANGED <<Boundary_Displacement, Displacement_Derivative,
                 Boundary_ModeShape, Boundary_ModeShape_TWM, Boundary_BladeID,
                 fault>>

DoSetBound_Vel(iPoint, iDim, val_BoundVel) ==
  /\ CanCall
  /\ Boundary_Velocity' = SetBound_Vel(iPoint, iDim, val_BoundVel)
  /\ ret' = "void"
  /\ adj_disp' = <<>>
  /\ lastCall' = [op |-> "SetBound_Vel", iPoint |-> iPoint, iDim |-> iDim,
                  val |-> val_BoundVel]
  /\ nCalls' = nCalls + 1
  /\ AccessorFrame
  /\ UNCHANGED <<Boundary_Displacement, Displacement_Derivative,
                 Boundary_ModeShape, Boundary_ModeShape_TWM, Boundary_BladeID,
                 fault>>

DoSetBound_BladeID(iPoint, val_BladeID) ==
  /\ CanCall
  /\ Boundary_BladeID' = SetBound_BladeID(iPoint, val_BladeID)
  /\ ret' = "void"
  /\ adj_disp' = <<>>
  /\ lastCall' = [op |-> "SetBound_BladeID", iPoint |-> iPoint, val |-> val_BladeID]
  /\ nCalls' = nCalls + 1
  /\ AccessorFrame
  /\ UNCHANGED <<Boundary_Displacement, Displacement_Derivative, Boundary_Velocity,
                 Boundary_ModeShape, Boundary_ModeShape_TWM, fault>>

DoGetBound_BladeID(iPoint) ==
  /\ Idle
  /\ ret' = GetBound_BladeID(iPoint)
  /\ adj_disp' = <<>>
  /\ lastCall' = [op |-> "GetBound_BladeID", iPoint |-> iPoint]
  /\ AccessorFrame
  /\ UNCHANGED <<storage, fault>>
  /\ UNCHANGED nCalls

\* Initialize_ModeshapeMatrix(val_nMode), called after index compaction.
\* Nothing prevents a second call.
DoInitialize_ModeshapeMatrix(val_nMode) ==
  /\ Idle
  /\ VertexMap.isValid
  /\ LET new == Initialize_ModeshapeMatrix(val_nMode)
     IN  /\ nMode' = new.nMode
         /\ Boundary_ModeShape' = new.Boundary_ModeShape
         /\ Boundary_ModeShape_TWM' = new.Boundary_ModeShape_TWM
  /\ ret' = "void"
  /\ adj_disp' = <<>>
  /\ lastCall' = [op |-> "Initialize_ModeshapeMatrix", val_nMode |-> val_nMode,
                  old_nMode |-> nMode]
  /\ UNCHANGED <<VertexMap, Boundary_Displacement, Displacement_Derivative,
                 Boundary_Velocity, Boundary_BladeID, registered, fault, nCalls, lastFlag>>

\* Mode-shape accessors are called once the tensors are initialized, with a
\* mode below nMode and a dimension below nDim.
CanCallModeShape(iMode) == CanCall /\ nMode > 0 /\ iMode < nMode
CanReadModeShape(iMode) == Idle /\ nMode > 0 /\ iMode < nMode

DoSetBound_ModeShape(iPoint, iMode, iDim, val_BoundModeShape) ==
  /\ CanCallModeShape(iMode)
  /\ LET w == SetBound_ModeShape(iPoint, iMode, iDim, val_BoundModeShape)
     IN  /\ Boundary_ModeShape' = w.t
         /\ fault' = w.oob
  /\ ret' = "void"
  /\ adj_disp' = <<>>
  /\ lastCall' = [op |-> "SetBound_ModeShape", iPoint |-> iPoint, iMode |-> iMode,
                  iDim |-> iDim, val |-> val_BoundModeShape]
  /\ nCalls' = nCalls + 1
  /\ AccessorFrame
  /\ UNCHANGED <<Boundary_Displacement, Displacement_Derivative, Boundary_Velocity,
                 Boundary_ModeShape_TWM, Boundary_BladeID>>

DoSetBound_ModeShape_TWM(iPoint, iMode, iDim, val_BoundModeShape_TWM) ==
  /\ CanCallModeShape(iMode)
  /\ LET w == SetBound_ModeShape_TWM(iPoint, iMode, iDim, val_BoundModeShape_TWM)
     IN  /\ Boundary_ModeShape_TWM' = w.t
         /\ fault' = w.oob
  /\ ret' = "void"
  /\ adj_disp' = <<>>
  /\ lastCall' = [op |-> "SetBound_ModeShape_TWM", iPoint |-> iPoint,
                  iMode |-> iMode, iDim |-> iDim, val |-> val_BoundModeShape_TWM]
  /\ nCalls' = nCalls + 1
  /\ AccessorFrame
  /\ UNCHANGED <<Boundary_Displacement, Displacement_Derivative, Boundary_Velocity,
                 Boundary_ModeShape, Boundary_BladeID>>

\* A read outside the storage has no defined value: any value, and the fault.
DoGetBound_ModeShape(iPoint, iMode, iDim) ==
  /\ CanReadModeShape(iMode)
  /\ LET g == GetBound_ModeShape(iPoint, iMode, iDim)
     IN  /\ ret' \in (IF g.oob THEN Values ELSE {g.val})
         /\ fault' = g.oob
  /\ adj_disp' = <<>>
  /\ lastCall' = [op |-> "GetBound_ModeShape", iPoint |-> iPoint, iMode |-> iMode,
                  iDim |-> iDim]
  /\ AccessorFrame
  /\ UNCHANGED storage
  /\ UNCHANGED nCalls

DoGetBound_ModeShape_TWM(iPoint, iMode, iDim) ==
  /\ CanReadModeShape(iMode)
  /\ LET g == GetBound_ModeShape_TWM(iPoint, iMode, iDim)
     IN  /\ ret' \in (IF g.oob THEN Values ELSE {g.val})
         /\ fault' = g.oob
  /\ adj_disp' = <<>>
  /\ lastCall' = [op |-> "GetBound_ModeShape_TWM", iPoint |-> iPoint,
                  iMode |-> iMode, iDim |-> iDim]
  /\ AccessorFrame
  /\ UNCHANGED storage
  /\ UNCHANGED nCalls

\* Register_BoundDisp(): every displacement entry of every boundary vertex
\* becomes an input of the tape; no derivative is attached yet.
Register_BoundDisp ==
  /\ Idle
  /\ VertexMap.isValid
  /\ ~registered
  /\ registered' = TRUE
  /\ Displacement_Derivative' =
       [v \in DOMAIN Displacement_Derivative |-> [d \in Dims |-> 0]]
  /\ ret' = "void"
  /\ adj_disp' = <<>>
  /\ lastCall' = [op |-> "Register_BoundDisp"]
  /\ UNCHANGED <<VertexMap, Boundary_Displacement, Boundary_Velocity,
                 Boundary_ModeShape, Boundary_ModeShape_TWM, Boundary_BladeID,
                 nMode, fault, nCalls, lastFlag>>

\* The external reverse sweep: attaches a derivative to each registered entry.
ReverseSweep(seed) ==
  /\ Idle
  /\ registered
  /\ registered' = FALSE
  /\ Displacement_Derivative' =
       [v \in DOMAIN Displacement_Derivative |->
          [d \in Dims |-> SweptDerivative(seed, v, d)]]
  /\ ret' = "void"
  /\ adj_disp' = <<>>
  /\ lastCall' = [op |-> "ReverseSweep"]
  /\ UNCHANGED <<VertexMap, Boundary_Displacement, Boundary_Velocity,
                 Boundary_ModeShape, Boundary_ModeShape_TWM, Boundary_BladeID,
                 nMode, fault, nCalls, lastFlag>>

\* GetAdjoint_BoundDisp(iPoint, adj_disp) on a caller buffer holding buf.
DoGetAdjoint_BoundDisp(iPoint, buf) ==
  /\ Idle
  /\ adj_disp' = GetAdjoint_BoundDisp(iPoint, buf)
  /\ ret' = "void"
  /\ lastCall' = [op |-> "GetAdjoint_BoundDisp", iPoint |-> iPoint, buf |-> buf]
  /\ AccessorFrame
  /\ UNCHANGED <<storage, fault>>
  /\ UNCHANGED nCalls

Next ==
  \/ \E iPoint \in Points, isVertex \in BOOLEAN : DoSet_isVertex(iPoint, isVertex)
  \/ \E iPoint \in Points : DoGet_isVertex(iPoint)
  \/ AllocateBoundaryVariables
  \/ \E iPoint \in Points, iDim \in Dims : DoGetBound_Disp(iPoint, iDim)
  \/ \E iPoint \in Points, v \in Vectors : DoSetBound_Disp_Vec(iPoint, v)
  \/ \E iPoint \in Points, iDim \in Dims, v \in Values : DoSetBound_Disp(iPoint, iDim, v)
  \/ \E iPoint \in Points, iDim \in Dims : DoGetBound_Vel(iPoint, iDim)
  \/ \E iPoint \in Points, v \in Vectors : DoSetBound_Vel_Vec(iPoint, v)
  \/ \E iPoint \in Points, iDim \in Dims, v \in Values : DoSetBound_Vel(iPoint, iDim, v)
  \/ \E iPoint \in Points, v \in Values : DoSetBound_BladeID(iPoint, v)
  \/ \E iPoint \in Points : DoGetBound_BladeID(iPoint)
  \/ \E val_nMode \in 1 .. MaxMode : DoInitialize_ModeshapeMatrix(val_nMode)
  \/ \E iPoint \in Points, iMode \in Modes, iDim \in Dims, v \in Values :
       DoSetBound_ModeShape(iPoint, iMode, iDim, v)
  \/ \E iPoint \in Points, iMode \in Modes, iDim \in Dims, v \in Values :
       DoSetBound_ModeShape_TWM(iPoint, iMode, iDim, v)
  \/ \E iPoint \in Points, iMode \in Modes, iDim \in Dims :
       DoGetBound_ModeShape(iPoint, iMode, iDim)
  \/ \E iPoint \in Points, iMode \in Modes, iDim \in Dims :
       DoGetBound_ModeShape_TWM(iPoint, iMode, iDim)
  \/ Register_BoundDisp
  \/ \E seed \in Seeds : ReverseSweep(seed)
  \/ \E iPoint \in Points, buf \in BufferInputs : DoGetAdjoint_BoundDisp(iPoint, buf)
  \/ Return

Spec == Init /\ [][Next]_vars

\* ------------------------------------------------------------ properties
GetterOps == {"GetBound_Disp", "GetBound_Vel", "GetBound_ModeShape",
              "GetBound_ModeShape_TWM", "GetBound_BladeID"}
SetterOps == {"SetBound_Disp", "SetBound_Disp_Vec", "SetBound_Vel",
              "SetBound_Vel_Vec", "SetBound_ModeShape", "SetBound_ModeShape_TWM",
              "SetBound_BladeID"}
DispWriteOps == {"SetBound_Disp", "SetBound_Disp_Vec"}
VelWriteOps == {"SetBound_Vel", "SetBound_Vel_Vec"}

\* The point named by the last call resolves to a compact index.
LastPointIsVertex == GetVertexIndex(VertexMap, lastCall.iPoint).ok
LastVertex == GetVertexIndex(VertexMap, lastCall.iPoint).iPoint

\* Every getter, evaluated at a point, gives zero.
ReadsZero(p) ==
  /\ \A d \in Dims : GetBound_Disp(p, d) = 0 /\ GetBound_Vel(p, d) = 0
  /\ \A m \in Modes, d \in Dims :
       /\ GetBound_ModeShape(p, m, d) = [oob |-> FALSE, val |-> 0]
       /\ GetBound_ModeShape_TWM(p, m, d) = [oob |-> FALSE, val |-> 0]
  /\ GetBound_BladeID(p) = 0

\* The points whose last Set_isVertex call passed true.
Flagged == {p \in Points : lastFlag[p]}
Rank(p) == Cardinality({q \in Flagged : q < p})

\* Points that are not flagged: never named by Set_isVertex(p, true), or
\* unflagged again before compaction.
UnflaggedReadZero == \A p \in Points \ Flagged : ReadsZero(p)

\* C1: for every point not flagged via Set_isVertex (in particular every
\* point never flagged), whatever was called before, every getter returns
\* zero (as evaluated in the state and as returned by a getter call) and
\* every setter call leaves all stored boundary state unchanged.
C1_UnflaggedIsInert ==
  [][ /\ UnflaggedReadZero'
      /\ (lastCall'.op \in GetterOps /\ lastCall'.iPoint \notin Flagged')
           => (ret' = 0 /\ ~fault')
      /\ (lastCall'.op \in SetterOps /\ lastCall'.iPoint \notin Flagged')
           => (UNCHANGED storage /\ ~fault') ]_vars

\* A setter was called, after compaction, on an unflagged point whose global
\* identifier is a valid row of the allocated storage.
C1_Witness ==
  /\ lastCall.op = "SetBound_Disp"
  /\ lastCall.iPoint \notin Flagged
  /\ lastCall.val # 0
  /\ VertexMap.isValid
  /\ lastCall.iPoint < VertexMap.nVertex

\* C2: after compaction the flagged points (last write per point wins) hold
\* the compact indices 0..|S|-1 in ascending order of point identifier, the
\* other points hold none, and the recorded count is |S|.
C2_CompactAscending ==
  VertexMap.isValid =>
    /\ VertexMap.nVertex = Cardinality(Flagged)
    /\ \A p \in Points :
         GetVertexIndex(VertexMap, p) =
           IF p \in Flagged THEN [ok |-> TRUE, iPoint |-> Rank(p)]
                            ELSE [ok |-> FALSE, iPoint |-> p]
    /\ \A p \in Points : Get_isVertex(p) = (p \in Flagged)

\* Compaction ran with two flagged points above an unflagged one, so that
\* their compact indices differ from their identifiers.
C2_Witness ==
  /\ VertexMap.isValid
  /\ Flagged = {1, 2}
  /\ GetVertexIndex(VertexMap, 1).iPoint = 0
  /\ GetVertexIndex(VertexMap, 2).iPoint = 1

\* C3 (as claimed): right after Initialize_ModeshapeMatrix(m) following a
\* compaction that produced k vertices both tensors have extent (k, m, nDim)
\* and are zero, and both mode-shape getters return 0 for every boundary
\* vertex, mode < m and dimension.
C3_InitializedExtent ==
  lastCall.op = "Initialize_ModeshapeMatrix" =>
    /\ Boundary_ModeShape =
         Resize3D(VertexMap.nVertex, lastCall.val_nMode, nDim, 0)
    /\ Boundary_ModeShape_TWM =
         Resize3D(VertexMap.nVertex, lastCall.val_nMode, nDim, 0)
    /\ \A p \in Points, m \in 0 .. (lastCall.val_nMode - 1), d \in Dims :
         /\ GetBound_ModeShape(p, m, d) = [oob |-> FALSE, val |-> 0]
         /\ GetBound_ModeShape_TWM(p, m, d) = [oob |-> FALSE, val |-> 0]

\* C4: GetAdjoint_BoundDisp on a boundary vertex writes the derivative of
\* displacement entry (p, d) to buf[d] for every d < nDim and leaves every
\* buffer position from nDim on as the caller passed it.
C4_AdjointRecovered ==
  (lastCall.op = "GetAdjoint_BoundDisp" /\ LastPointIsVertex) =>
    \A i \in BufIdx :
      adj_disp[i] = IF i < nDim THEN Displacement_Derivative[LastVertex][i]
                                ELSE lastCall.buf[i]

\* The adjoint was recovered, after a reverse sweep, for a boundary vertex
\* whose compact index differs from its identifier.
C4_Witness ==
  /\ lastCall.op = "GetAdjoint_BoundDisp"
  /\ LastPointIsVertex
  /\ LastVertex # lastCall.iPoint
  /\ \A d \in Dims : adj_disp[d] = SweptDerivative(1, LastVertex, d)
  /\ adj_disp[nDim] = lastCall.buf[nDim]

\* C5: right after the pointer form of SetBound_Disp on a boundary vertex,
\* GetBound_Disp returns the value passed for each dimension.
C5_DispRoundTrip ==
  (lastCall.op = "SetBound_Disp_Vec" /\ LastPointIsVertex) =>
    \A d \in Dims : GetBound_Disp(lastCall.iPoint, d) = lastCall.val[d]

\* A vector with different entries was written to a boundary vertex whose
\* compact index differs from its identifier.
C5_Witness ==
  /\ lastCall.op = "SetBound_Disp_Vec"
  /\ LastPointIsVertex
  /\ LastVertex # lastCall.iPoint
  /\ lastCall.val[0] # lastCall.val[1]

\* C6 (as claimed): a mode-shape set on a boundary vertex at (mode, dim)
\* stores the value in that entry of the tensor it targets, keeps every other
\* entry of that tensor, and leaves the other tensor unchanged.
C6_ModeShapeFrame ==
  [][ /\ (lastCall'.op = "SetBound_ModeShape"
            /\ GetVertexIndex(VertexMap, lastCall'.iPoint).ok) =>
           /\ ~fault'
           /\ Boundary_ModeShape_TWM' = Boundary_ModeShape_TWM
           /\ Boundary_ModeShape' =
                [Boundary_ModeShape EXCEPT
                   !.data[GetVertexIndex(VertexMap, lastCall'.iPoint).iPoint]
                         [lastCall'.iMode][lastCall'.iDim] = lastCall'.val]
      /\ (lastCall'.op = "SetBound_ModeShape_TWM"
            /\ GetVertexIndex(VertexMap, lastCall'.iPoint).ok) =>
           /\ ~fault'
           /\ Boundary_ModeShape' = Boundary_ModeShape
           /\ Boundary_ModeShape_TWM' =
                [Boundary_ModeShape_TWM EXCEPT
                   !.data[GetVertexIndex(VertexMap, lastCall'.iPoint).iPoint]
                         [lastCall'.iMode][lastCall'.iDim] = lastCall'.val]
    ]_vars

\* Distinct points never resolve to the same compact index.
IndexInjective ==
  \A p, q \in Points :
    (p # q /\ GetVertexIndex(VertexMap, p).ok /\ GetVertexIndex(VertexMap, q).ok)
      => GetVertexIndex(VertexMap, p).iPoint # GetVertexIndex(VertexMap, q).iPoint

\* C7: a displacement write for a boundary point changes no velocity entry
\* and no displacement entry of another point; a velocity write changes no
\* displacement entry and no velocity entry of another point; distinct
\* boundary points have distinct compact indices.
C7_DispVelIndependent ==
  [][ /\ IndexInjective'
      /\ (lastCall'.op \in DispWriteOps
            /\ GetVertexIndex(VertexMap, lastCall'.iPoint).ok) =>
           /\ Boundary_Velocity' = Boundary_Velocity
           /\ \A q \in Points \ {lastCall'.iPoint}, d \in Dims :
                GetBound_Disp(q, d)' = GetBound_Disp(q, d)
           /\ \A q \in Points, d \in Dims :
                GetBound_Vel(q, d)' = GetBound_Vel(q, d)
      /\ (lastCall'.op \in VelWriteOps
            /\ GetVertexIndex(VertexMap, lastCall'.iPoint).ok) =>
           /\ Boundary_Displacement' = Boundary_Displacement
           /\ \A q \in Points \ {lastCall'.iPoint}, d \in Dims :
                GetBound_Vel(q, d)' = GetBound_Vel(q, d)
           /\ \A q \in Points, d \in Dims :
                GetBound_Disp(q, d)' = GetBound_Disp(q, d)
    ]_vars

\* A non-zero velocity was written to one of several boundary vertices.
C7_Witness ==
  /\ lastCall.op = "SetBound_Vel"
  /\ LastPointIsVertex
  /\ lastCall.val # 0
  /\ VertexMap.nVertex >= 2
  /\ GetBound_Vel(lastCall.iPoint, lastCall.iDim) # 0

\* C8: GetAdjoint_BoundDisp for a point that is no boundary vertex leaves the
\* caller's buffer exactly as it was.
C8_BufferUntouched ==
  (lastCall.op = "GetAdjoint_BoundDisp" /\ ~LastPointIsVertex) =>
    adj_disp = lastCall.buf

\* The adjoint was asked, after a reverse sweep, for a point that is no
\* boundary vertex and whose identifier is a valid row of the displacement.
C8_Witness ==
  /\ lastCall.op = "GetAdjoint_BoundDisp"
  /\ ~LastPointIsVertex
  /\ VertexMap.isValid
  /\ lastCall.iPoint < VertexMap.nVertex
  /\ Displacement_Derivative[lastCall.iPoint][0] # 0
  /\ adj_disp = lastCall.buf

\* The extents of both mode-shape tensors.
Extents ==
  <<Boundary_ModeShape.length, Boundary_ModeShape.rows, Boundary_ModeShape.cols,
    Boundary_ModeShape_TWM.length, Boundary_ModeShape_TWM.rows,
    Boundary_ModeShape_TWM.cols>>

\* C9 (as claimed): once the initializer has been called, no later operation
\* changes nMode or the extents of the mode-shape tensors.
C9_nModeSetOnce ==
  [][ nMode # 0 => (nMode' = nMode /\ Extents' = Extents) ]_vars

\* C9 (amended): nMode and the extents change only in
\* Initialize_ModeshapeMatrix, and every call of it, a repeated one with a
\* different mode count included, sets nMode and the mode extent of both
\* tensors to its argument.
C9_nModeSetByEveryInitialize ==
  [][ IF lastCall'.op = "Initialize_ModeshapeMatrix"
        THEN /\ nMode' = lastCall'.val_nMode
             /\ Boundary_ModeShape'.rows = lastCall'.val_nMode
             /\ Boundary_ModeShape_TWM'.rows = lastCall'.val_nMode
        ELSE nMode' = nMode /\ Extents' = Extents ]_vars

\* The initializer was called a second time, with a different mode count.
C9_Witness ==
  /\ lastCall.op = "Initialize_ModeshapeMatrix"
  /\ lastCall.old_nMode # 0
  /\ lastCall.old_nMode # lastCall.val_nMode
  /\ nMode = lastCall.val_nMode

\* C10 (as claimed): after compaction and initialization the compact index of
\* every boundary vertex is below the first extent of every container
\* (displacement, velocity, both mode-shape tensors, blade ID), and no
\* accessor has read or written outside allocated storage.
C10_AccessInBounds ==
  /\ ~fault
  /\ (VertexMap.isValid /\ nMode > 0) =>
       \A p \in Points :
         LET r == GetVertexIndex(VertexMap, p)
         IN  r.ok =>
               /\ r.iPoint \in DOMAIN Boundary_Displacement
               /\ r.iPoint \in DOMAIN Boundary_Velocity
               /\ r.iPoint \in DOMAIN Boundary_BladeID
               /\ r.iPoint < Length3D(Boundary_ModeShape)
               /\ r.iPoint < Length3D(Boundary_ModeShape_TWM)

====
